---------------------------- MODULE Spec2Model ----------------------------
(***************************************************************************)
(* Model of the reading deep-dive pipeline of generate_crm.py: the school  *)
(* calendar, the loading of the test-attempt table, the per-student metric *)
(* computation (compute_student_metrics), the sort by growth and the       *)
(* systemic-issue aggregation (detect_systemic_issues), in the order main  *)
(* runs them; and of the legacy script analyze_low_growth.py: its name     *)
(* matching (find_student_in_df), its categorizer and its time and XP      *)
(* analyses.                                                               *)
(*                                                                         *)
(* Conventions.  Every quantity the code holds as a float with decimals    *)
(* (scores, grades, HMG, growth, percentages) is a fixed-point integer in  *)
(* tenths: the score 89.5 is 895, HMG 7.5 is 75, 50.0 percent is 500.      *)
(* Minutes and XP are whole numbers.  Dates are day offsets from           *)
(* 2025-08-14.  NaN / None / NaT are the one sentinel NaN, and every       *)
(* comparison with it is guarded the way pandas evaluates it (False).      *)
(***************************************************************************)
EXTENDS Integers, Sequences, FiniteSets, TLC

VARIABLES
    pc,               \* position of main: "load", "calendar", "process", "detect", "done"
    start_date,       \* the term's first day, read by the calendar (START_DATE)
    end_date,         \* the term's last day, read by the calendar (END_DATE)
    half_days,        \* the early-dismissal dates the calendar script lists
    effective_days,   \* compute_school_days()[0]
    expected_minutes, \* compute_school_days()[1]
    raw_results,      \* rows of the reading-results export as read from the file
    results_df,       \* load_reading_results(): the rows that survive the filters
    row,              \* the assessment row of the student processed last
    daily_data,       \* that student's activity rows
    test_data,        \* that student's test attempts (results_by_email[email])
    all_students,     \* list of StudentMetrics records
    systemic_issues,  \* detect_systemic_issues(all_students)
    lg_pc,            \* position of the legacy analysis script: "load", "time", "xp",
                      \* "tests", "cluster", "done"
    student_name,     \* the Student Name of the deep-dive row the script is at
    minutes_data,     \* rows of the weekly-minutes export
    xp_data,          \* rows of the weekly-XP export
    mins_df,          \* find_student_in_df(name, Reading rows of minutes_data)
    time_results,     \* the entries of time_results
    student_xp,       \* find_student_in_df(name, xp_data)
    app_cats,         \* categorize_app(app) of each row of student_xp, in turn
    xp_results,       \* the entries of xp_results
    rushed,           \* 'Rushed MAP test?' of that deep-dive row
    test_history,     \* rows of the test-history export
    test_results,     \* the entries of test_results
    student_clusters, \* the clusters of the student the clustering loop is at
    clusters          \* clusters: for each cluster, the names appended to it

\* the calendar's configuration, which no step of the run assigns
config == <<start_date, end_date, half_days>>

\* the state of the legacy analysis script, a program of its own
legacy == <<lg_pc, student_name, minutes_data, xp_data, mins_df, time_results,
            student_xp, app_cats, xp_results, rushed, test_history, test_results,
            student_clusters, clusters>>

\* the state of the report generator's main
run == <<pc, effective_days, expected_minutes, raw_results, results_df, row,
         daily_data, test_data, all_students, systemic_issues>>

vars == <<config, run, legacy>>

-----------------------------------------------------------------------------
(* Constants of generate_crm.py *)

NaN == -9999

START_DATE == 0
END_DATE == 162
EXPECTED_DAILY_MINUTES == 25
PASS_THRESHOLD == 895

INSTRUCTION_APPS == {"MobyMax"}
PRACTICE_APPS == {"Alpha Read"}
TESTING_APPS == {"Mastery Track", "100 for 100", "Alpha Tests", "100x100"}
EARLY_LIT_APPS == {"Anton", "ClearFluency", "Clear Fluency", "Amplify", "Mentava",
                   "Literably", "Lalilo", "Lexia Core5", "FastPhonics", "TeachTales",
                   "AlphaLiteracy"}
ADMIN_APPS == {"Manual XP Assign", "Manual XP", "Timeback UI", "TimeBack Dash",
               "Acely SAT", "AlphaLearn", "Alpha Timeback", "Timeback Learn"}

-----------------------------------------------------------------------------
(* pandas / Python primitives *)

notna(x) == x # NaN
isna(x) == x = NaN

\* n whole units as a fixed-point value in tenths
Dec(n) == 10 * n

\* int(x) of a non-negative fixed-point value, kept in tenths
Trunc(x) == (x \div 10) * 10

\* x >= y, x < y, x > y as pandas evaluates them: False when x is NaN
Ge(x, y) == notna(x) /\ x >= y
Lt(x, y) == notna(x) /\ x < y
Gt(x, y) == notna(x) /\ x > y

Range(s) == {s[i] : i \in 1..Len(s)}

RECURSIVE Sum(_)
\* sum of a sequence of numbers
Sum(s) == IF s = <<>> THEN 0 ELSE Head(s) + Sum(Tail(s))

\* max of a non-empty set of integers
MaxOf(S) == CHOOSE x \in S : \A y \in S : y <= x

\* round(num / den * 100, 1) for num >= 0, den > 0, in tenths of a percent,
\* ties to even as Python's round
RoundPct(num, den) ==
    LET q == (1000 * num) \div den
        r == (1000 * num) % den
    IN  IF 2 * r > den THEN q + 1
        ELSE IF 2 * r < den THEN q
        ELSE IF q % 2 = 0 THEN q ELSE q + 1

\* round(num / den, 1) for num >= 0, den > 0, in tenths, ties to even
RoundDiv(num, den) ==
    LET q == (10 * num) \div den
        r == (10 * num) % den
    IN  IF 2 * r > den THEN q + 1
        ELSE IF 2 * r < den THEN q
        ELSE IF q % 2 = 0 THEN q ELSE q + 1

categorize_app(app_name) ==
    IF app_name \in INSTRUCTION_APPS THEN "Instruction"
    ELSE IF app_name \in PRACTICE_APPS THEN "Practice"
    ELSE IF app_name \in TESTING_APPS THEN "Testing"
    ELSE IF app_name \in EARLY_LIT_APPS THEN "Early Lit"
    ELSE IF app_name \in ADMIN_APPS THEN "Admin/Other"
    ELSE "Admin/Other"

-----------------------------------------------------------------------------
(* compute_school_days *)

\* date.weekday() of the day at offset d: 2025-08-14 is a Thursday (3)
weekday(d) == (d + 3) % 7

\* half_days = {date(2025, 12, 17), date(2025, 12, 18)}, as offsets
HALF_DAYS == {125, 126}

\* the dates the function adds to non_school, as offsets
non_school ==
    (5..8) \cup (12..15) \cup {18} \cup (53..57) \cup (102..106)
    \cup {d \in 130..141 : weekday(d) < 5} \cup {158}

all_days(start, end) == {d \in start..end : weekday(d) < 5}

non_school_weekdays(start, end) ==
    {d \in non_school : weekday(d) < 5 /\ start <= d /\ d <= end}

school_days(start, end) == all_days(start, end) \ non_school_weekdays(start, end)

\* half_days plays no part: the adjustment is the literal 1
compute_school_days(start, end) ==
    LET eff == Cardinality(school_days(start, end)) - 1
    IN  [effective_days |-> eff, expected_minutes |-> eff * EXPECTED_DAILY_MINUTES]

-----------------------------------------------------------------------------
(* load_reading_results: the filters on the test-attempt table *)

\* df[df['subject'] == 'Reading'], then df[df['score_date_utc'] >= '2025-08-14']
\* (a NaT date compares False and the row is dropped)
KeepResult(tr) ==
    /\ tr.subject = "Reading"
    /\ Ge(tr.score_date_utc, START_DATE)

load_reading_results(raw) == SelectSeq(raw, KeepResult)

\* results_by_email.get(email, pd.DataFrame())
results_by_email(df, email) ==
    LET Mine(tr) == tr.student_email = email
    IN  SelectSeq(df, Mine)

-----------------------------------------------------------------------------
(* compute_student_metrics: test results aggregation *)

\* passed = tr['score'] >= PASS_THRESHOLD if pd.notna(tr['score']) else False
Passed(tr) == IF notna(tr.score) THEN tr.score >= PASS_THRESHOLD ELSE FALSE

\* test_data[test_data['score'] < PASS_THRESHOLD]
FailedRow(tr) == Lt(tr.score, PASS_THRESHOLD)

\* test_data[test_data['score'] >= PASS_THRESHOLD]
PassedRow(tr) == Ge(tr.score, PASS_THRESHOLD)

EffTests(tests) == Len(SelectSeq(tests, Passed))

\* grade_fails: .groupby('test_grade').size() of the failed rows; a NaN grade
\* forms no group
GradeFails(tests, g) ==
    LET FailedAt(tr) == FailedRow(tr) /\ tr.test_grade = g
    IN  Len(SelectSeq(tests, FailedAt))

FailedGrades(tests) ==
    {tests[i].test_grade : i \in {j \in 1..Len(tests) :
        FailedRow(tests[j]) /\ notna(tests[j].test_grade)}}

\* grades_passed
GradesPassed(tests) ==
    {Trunc(tests[i].test_grade) : i \in {j \in 1..Len(tests) :
        PassedRow(tests[j]) /\ notna(tests[j].test_grade)}}

\* DoomGrades with the exclusion of the grades eventually passed left out
DoomGradesKeepPassed(tests) ==
    IF Len(tests) > 0
    THEN {Trunc(g) : g \in {h \in FailedGrades(tests) : GradeFails(tests, h) >= 3}}
    ELSE {}

\* doom_grades, as the set of its elements
DoomGrades(tests) ==
    IF Len(tests) > 0
    THEN {Trunc(g) : g \in {h \in FailedGrades(tests) :
              GradeFails(tests, h) >= 3 /\ Trunc(h) \notin GradesPassed(tests)}}
    ELSE {}

\* MaxPassedGrade taken over every attempt, passed or not
MaxAnyGrade(tests) ==
    LET gs == {tests[i].test_grade : i \in {j \in 1..Len(tests) :
                  notna(tests[j].test_grade)}}
    IN  IF gs = {} THEN NaN ELSE MaxOf(gs)

\* passed_tests['test_grade'].max(): NaN grades are skipped, NaN if none is left
MaxPassedGrade(tests) ==
    LET gs == {tests[i].test_grade : i \in {j \in 1..Len(tests) :
                  PassedRow(tests[j]) /\ notna(tests[j].test_grade)}}
    IN  IF gs = {} THEN NaN ELSE MaxOf(gs)

\* ResolveHmg with the guard "missing or <= 1" and the "better than current"
\* test left out: the test-derived value always replaces the spreadsheet value
ResolveHmgAlwaysTests(hmg, tests) ==
    IF Len(tests) > 0 /\ Len(SelectSeq(tests, PassedRow)) > 0
    THEN MaxPassedGrade(tests)
    ELSE hmg

\* HMG fallback: the value of hmg after lines 357-364
ResolveHmg(hmg, tests) ==
    IF (isna(hmg) \/ hmg <= Dec(1)) /\ Len(tests) > 0
    THEN IF Len(SelectSeq(tests, PassedRow)) > 0
         THEN LET test_hmg == MaxPassedGrade(tests)
              IN  IF isna(hmg) \/ Gt(test_hmg, hmg) THEN test_hmg ELSE hmg
         ELSE hmg
    ELSE hmg

\* test_history[i]['grade']
HistoryGrade(tr) == IF notna(tr.test_grade) THEN Trunc(tr.test_grade) ELSE NaN

\* HmgPlus1Total without the restriction to the target grade
HmgPlus1TotalAnyGrade(hmg, tests) ==
    IF Len(tests) > 0 /\ notna(hmg) THEN Len(tests) ELSE 0

\* hmg_plus1_total and hmg_plus1_passed
HmgPlus1Total(hmg, tests) ==
    LET AtTarget(tr) == HistoryGrade(tr) = Trunc(hmg) + Dec(1)
    IN  IF Len(tests) > 0 /\ notna(hmg) THEN Len(SelectSeq(tests, AtTarget)) ELSE 0

HmgPlus1Passed(hmg, tests) ==
    LET PassedAtTarget(tr) == HistoryGrade(tr) = Trunc(hmg) + Dec(1) /\ Passed(tr)
    IN  IF Len(tests) > 0 /\ notna(hmg) THEN Len(SelectSeq(tests, PassedAtTarget)) ELSE 0

-----------------------------------------------------------------------------
(* compute_student_metrics: bands *)

\* ReadingGroup without the final catch-all: reading_group keeps its initial ''
ReadingGroupNoCatchAll(level, hmg, age_grade) ==
    IF level = "HS" /\ notna(hmg) /\ hmg >= Dec(8) THEN "G9+"
    ELSE IF notna(hmg) /\ Dec(2) <= hmg /\ hmg <= Dec(7) THEN "G3-8"
    ELSE IF notna(age_grade) /\ Dec(3) <= age_grade /\ age_grade <= Dec(8)
            /\ notna(hmg) /\ Dec(2) <= hmg /\ hmg <= Dec(12) THEN "G3-8"
    ELSE IF isna(hmg) \/ hmg <= Dec(1)
         THEN IF notna(age_grade) /\ age_grade >= Dec(9) /\ level = "HS"
              THEN "G9+"
              ELSE "G3-8"
    ELSE ""

\* ReadingGroup with the age-grade rule (c) tried before the HS rule (a)
ReadingGroupAgeFirst(level, hmg, age_grade) ==
    IF notna(age_grade) /\ Dec(3) <= age_grade /\ age_grade <= Dec(8)
       /\ notna(hmg) /\ Dec(2) <= hmg /\ hmg <= Dec(12) THEN "G3-8"
    ELSE IF level = "HS" /\ notna(hmg) /\ hmg >= Dec(8) THEN "G9+"
    ELSE IF notna(hmg) /\ Dec(2) <= hmg /\ hmg <= Dec(7) THEN "G3-8"
    ELSE IF isna(hmg) \/ hmg <= Dec(1)
         THEN IF notna(age_grade) /\ age_grade >= Dec(9) /\ level = "HS"
              THEN "G9+"
              ELSE "G3-8"
    ELSE "G3-8"

\* reading_group, lines 389-406
ReadingGroup(level, hmg, age_grade) ==
    IF level = "HS" /\ notna(hmg) /\ hmg >= Dec(8) THEN "G9+"
    ELSE IF notna(hmg) /\ Dec(2) <= hmg /\ hmg <= Dec(7) THEN "G3-8"
    ELSE IF notna(age_grade) /\ Dec(3) <= age_grade /\ age_grade <= Dec(8)
            /\ notna(hmg) /\ Dec(2) <= hmg /\ hmg <= Dec(12) THEN "G3-8"
    ELSE IF notna(hmg) /\ hmg >= Dec(8) /\ level = "HS" THEN "G9+"
    ELSE IF isna(hmg) \/ hmg <= Dec(1)
         THEN IF notna(age_grade) /\ age_grade >= Dec(9) /\ level = "HS"
              THEN "G9+"
              ELSE "G3-8"
    ELSE "G3-8"

\* hs_reading_category, lines 409-416 ('' when the level is not HS)
HsReadingCategory(level, hmg) ==
    IF level = "HS"
    THEN IF notna(hmg) /\ hmg <= Dec(7) THEN "HS (<=G8)"
         ELSE IF notna(hmg) /\ hmg >= Dec(8) THEN "HS (G9+)"
         ELSE "HS (No HMG)"
    ELSE ""

\* growth_category, lines 429-437
GrowthCategory(growth_fw) ==
    IF notna(growth_fw)
    THEN IF growth_fw < 0 THEN "negative"
         ELSE IF growth_fw = 0 THEN "zero"
         ELSE "positive"
    ELSE "unknown"

-----------------------------------------------------------------------------
(* compute_student_metrics: daily metrics aggregation *)

TotalActive(daily) == Sum([i \in 1..Len(daily) |-> daily[i].Active_Minutes])
TotalXp(daily) == Sum([i \in 1..Len(daily) |-> daily[i].XP_Earned])

\* the app of a row whose app field is empty (NaN in the frame)
MissingApp == "<NaN>"

\* the XP summed over the app groups of one category (lines 276-296);
\* groupby('app') leaves the rows without an app out of every group
CategoryXp(daily, cat) ==
    Sum([i \in 1..Len(daily) |->
            IF daily[i].app # MissingApp /\ categorize_app(daily[i].app) = cat
            THEN daily[i].XP_Earned
            ELSE 0])

\* PctExpected with expected minutes below one day's counted as one day's
PctExpectedAtLeastOneDay(daily, expected) ==
    RoundPct(TotalActive(daily),
             IF expected > 0 THEN expected ELSE EXPECTED_DAILY_MINUTES)

\* pct_expected, line 265
PctExpected(daily, expected) ==
    IF expected > 0 THEN RoundPct(TotalActive(daily), expected) ELSE 0

\* daily_avg, line 266
DailyAvg(daily, days) ==
    IF days > 0 THEN RoundDiv(TotalActive(daily), days) ELSE 0

\* pct_instr, pct_practice, pct_testing, lines 309-311
PctOfXp(xp, total_xp) == IF total_xp > 0 THEN RoundPct(xp, total_xp) ELSE 0

\* EverEnrolledMm that takes a MobyMax row into account only if it earned XP
EverEnrolledMmWithXp(daily) ==
    \E i \in 1..Len(daily) : daily[i].app = "MobyMax" /\ daily[i].XP_Earned > 0

\* ever_enrolled_mm = any(a['app'] == 'MobyMax' for a in app_breakdown)
EverEnrolledMm(daily) == \E i \in 1..Len(daily) : daily[i].app = "MobyMax"

-----------------------------------------------------------------------------
(* compute_student_metrics: issue detection, lines 444-478 *)

\* gap = float(hmg) - float(age_grade), None when either is missing
Gap(hmg, age_grade) ==
    IF notna(hmg) /\ notna(age_grade) THEN hmg - age_grade ELSE NaN

\* doom_loop_above_hmg
DoomLoopAboveHmg(hmg, doom_grades) ==
    /\ doom_grades # {}
    /\ (isna(hmg) \/ \E g \in doom_grades : g > Trunc(hmg))

Flag(cond, name) == IF cond THEN <<name>> ELSE <<>>

\* Issues with the MobyMax check made for every HMG from 2 on, in an if of its
\* own instead of the elif
IssuesBothBands(hmg, has_daily, ever_mm, pct_testing, doom_grades, pct_expected, growth_fw, gap, hmg_plus1_total, hmg_plus1_eff_rate) ==
    Flag(notna(hmg) /\ hmg >= Dec(8), "NEEDS_HS_INSTRUCTION")
    \o Flag(notna(hmg) /\ Dec(2) <= hmg /\ ~ever_mm /\ has_daily, "NEEDS_MM_INSTRUCTION")
    \o Flag(pct_testing > Dec(50), "OVER_TESTING")
    \o Flag(doom_grades # {}, "DOOM_LOOP")
    \o Flag(pct_expected < Dec(50), "LOW_ENGAGEMENT")
    \o Flag(pct_expected >= Dec(100) /\ notna(growth_fw) /\ growth_fw <= 0,
            "TIME_NO_GROWTH")
    \o Flag(notna(gap) /\ gap >= 0 /\ notna(growth_fw) /\ growth_fw < 0,
            "AT_GRADE_NO_MOTIVATION")
    \o Flag(notna(gap) /\ gap <= -Dec(3), "LARGE_GAP")
    \o Flag(hmg_plus1_total > 2 /\ hmg_plus1_eff_rate < Dec(50),
            "LOW_EFFECTIVE_TESTS")

\* the list issues, in the order the code appends
Issues(hmg, has_daily, ever_mm, pct_testing, doom_grades, pct_expected, growth_fw, gap, hmg_plus1_total, hmg_plus1_eff_rate) ==
    (IF notna(hmg) /\ hmg >= Dec(8) THEN <<"NEEDS_HS_INSTRUCTION">>
     ELSE IF notna(hmg) /\ Dec(2) <= hmg /\ hmg <= Dec(7)
          THEN Flag(~ever_mm /\ has_daily, "NEEDS_MM_INSTRUCTION")
          ELSE <<>>)
    \o Flag(pct_testing > Dec(50), "OVER_TESTING")
    \o Flag(doom_grades # {}, "DOOM_LOOP")
    \o Flag(pct_expected < Dec(50), "LOW_ENGAGEMENT")
    \o Flag(pct_expected >= Dec(100) /\ notna(growth_fw) /\ growth_fw <= 0,
            "TIME_NO_GROWTH")
    \o Flag(notna(gap) /\ gap >= 0 /\ notna(growth_fw) /\ growth_fw < 0,
            "AT_GRADE_NO_MOTIVATION")
    \o Flag(notna(gap) /\ gap <= -Dec(3), "LARGE_GAP")
    \o Flag(hmg_plus1_total > 2 /\ hmg_plus1_eff_rate < Dec(50),
            "LOW_EFFECTIVE_TESTS")

-----------------------------------------------------------------------------
(* compute_student_metrics: the StudentMetrics record.  The fields that are  *)
(* copied for display only (names, campus, comments, app_breakdown,          *)
(* daily_activity, test_history, spring RIT) are left out.                   *)

compute_student_metrics(r, daily, tests, days, expected) ==
    LET has_daily == Len(daily) > 0
        has_tests == Len(tests) > 0
        total_xp == TotalXp(daily)
        pct_expected == PctExpected(daily, expected)
        testing_xp == CategoryXp(daily, "Testing")
        pct_testing == PctOfXp(testing_xp, total_xp)
        total_tests == Len(tests)
        eff_tests == EffTests(tests)
        doom_grades == DoomGrades(tests)
        hmg == ResolveHmg(r.HMG, tests)
        hmg_plus1_total == HmgPlus1Total(hmg, tests)
        hmg_plus1_passed == HmgPlus1Passed(hmg, tests)
        hmg_plus1_eff_rate ==
            IF hmg_plus1_total > 0 THEN RoundPct(hmg_plus1_passed, hmg_plus1_total) ELSE 0
        gap == Gap(hmg, r.Age_Grade)
        growth_fw == r.Growth_FW
    IN  [ email |-> r.Email,
          level |-> r.Level,
          hs_reading_category |-> HsReadingCategory(r.Level, hmg),
          age_grade |-> r.Age_Grade,
          hmg |-> hmg,
          reading_grade |-> IF notna(hmg) THEN Trunc(hmg + Dec(1)) ELSE NaN,
          reading_group |-> ReadingGroup(r.Level, hmg, r.Age_Grade),
          fall_rit |-> r.Fall_RIT,
          winter_rit |-> r.Winter_RIT,
          growth |-> growth_fw,
          growth_category |-> GrowthCategory(growth_fw),
          met_2x |-> notna(growth_fw) /\ growth_fw >= Dec(2),
          gap |-> gap,
          has_daily_data |-> has_daily,
          total_active_minutes |-> TotalActive(daily),
          total_xp |-> total_xp,
          pct_expected |-> pct_expected,
          daily_avg |-> DailyAvg(daily, days),
          instr_xp |-> CategoryXp(daily, "Instruction"),
          practice_xp |-> CategoryXp(daily, "Practice"),
          testing_xp |-> testing_xp,
          elit_xp |-> CategoryXp(daily, "Early Lit"),
          admin_xp |-> CategoryXp(daily, "Admin/Other"),
          pct_instr |-> PctOfXp(CategoryXp(daily, "Instruction"), total_xp),
          pct_practice |-> PctOfXp(CategoryXp(daily, "Practice"), total_xp),
          pct_testing |-> pct_testing,
          has_test_data |-> has_tests,
          total_tests |-> total_tests,
          eff_tests |-> eff_tests,
          eff_rate |-> IF total_tests > 0 THEN RoundPct(eff_tests, total_tests) ELSE 0,
          hmg_plus1_total |-> hmg_plus1_total,
          hmg_plus1_passed |-> hmg_plus1_passed,
          hmg_plus1_eff_rate |-> hmg_plus1_eff_rate,
          doom_grades |-> doom_grades,
          doom_loop_above_hmg |-> DoomLoopAboveHmg(hmg, doom_grades),
          issues |-> Issues(hmg, has_daily, EverEnrolledMm(daily), pct_testing,
                            doom_grades, pct_expected, growth_fw, gap,
                            hmg_plus1_total, hmg_plus1_eff_rate) ]

-----------------------------------------------------------------------------
(* detect_systemic_issues *)

\* issue_counts[issue]: the students carrying the flag, in list order
IssueCounts(students, issue) ==
    LET Has(st) == issue \in Range(st.issues)
    IN  SelectSeq(students, Has)

RECURSIVE DictKeys(_, _)
\* the keys of {s['email']: s for s in list}, in insertion order; seen is the
\* set of keys inserted so far
DictKeys(list, seen) ==
    IF list = <<>> THEN <<>>
    ELSE IF Head(list).email \in seen THEN DictKeys(Tail(list), seen)
    ELSE <<Head(list).email>> \o DictKeys(Tail(list), seen \cup {Head(list).email})

\* DictValues of a list that keeps every entry, repeated keys included
DictValuesNoDedup(list) == list

\* list({s['email']: s for s in list}.values()): one entry per key, the last
\* student inserted under it
DictValues(list) ==
    LET keys == DictKeys(list, {})
        last(e) == MaxOf({i \in 1..Len(list) : list[i].email = e})
    IN  [k \in 1..Len(keys) |-> list[last(keys[k])]]

\* round(x, 1) of the mean sum / n of fixed-point values, ties to even
RoundMean(sum, n) ==
    IF sum >= 0 THEN RoundDiv(sum, 10 * n) ELSE -RoundDiv(-sum, 10 * n)

\* AvgGrowth with a missing growth counted as 0 instead of being left out
AvgGrowthNoneAsZero(list) ==
    IF Len(list) = 0 THEN NaN
    ELSE RoundMean(Sum([i \in 1..Len(list) |->
                           IF notna(list[i].growth) THEN list[i].growth ELSE 0]),
                   Len(list))

\* round(np.nanmean([growth of those with a growth]), 1), None when nanmean
\* of the empty list is nan
AvgGrowth(list) ==
    LET HasGrowth(st) == notna(st.growth)
        with == SelectSeq(list, HasGrowth)
    IN  IF Len(with) = 0 THEN NaN
        ELSE RoundMean(Sum([i \in 1..Len(with) |-> with[i].growth]), Len(with))

\* the merged over-testing / doom-loop summary, lines 623-644
OverTestingDoom(students) ==
    LET ot_students == IssueCounts(students, "OVER_TESTING")
        dl_students == IssueCounts(students, "DOOM_LOOP")
        AboveHmg(st) == st.doom_loop_above_hmg
        dl_above_hmg_students == SelectSeq(dl_students, AboveHmg)
        merged_students == DictValues(ot_students \o dl_students)
    IN  IF Len(merged_students) > 0
        THEN << [ key |-> "OVER_TESTING_DOOM",
                  count |-> Len(merged_students),
                  avg_growth |-> AvgGrowth(merged_students),
                  students |-> merged_students,
                  detail_counts |-> [ over_testing |-> Len(ot_students),
                                      doom_loops |-> Len(dl_above_hmg_students) ] ] >>
        ELSE <<>>

\* the merged missing-instruction summary, lines 646-666
MissingReadingInstruction(students) ==
    LET hs_instr == IssueCounts(students, "NEEDS_HS_INSTRUCTION")
        mm_instr == IssueCounts(students, "NEEDS_MM_INSTRUCTION")
        merged_instr == DictValues(hs_instr \o mm_instr)
    IN  IF Len(merged_instr) > 0
        THEN << [ key |-> "MISSING_READING_INSTRUCTION",
                  count |-> Len(merged_instr),
                  avg_growth |-> AvgGrowth(merged_instr),
                  students |-> merged_instr,
                  detail_counts |-> [ needs_hs |-> Len(hs_instr),
                                      needs_mm |-> Len(mm_instr) ] ] >>
        ELSE <<>>

\* the minutes-without-growth summary, lines 668-689
TimeNoGrowth(students) ==
    LET tng_students == IssueCounts(students, "TIME_NO_GROWTH")
        Neg(st) == notna(st.growth) /\ st.growth < 0
    IN  IF Len(tng_students) > 0
        THEN << [ key |-> "TIME_NO_GROWTH",
                  count |-> Len(tng_students),
                  avg_growth |-> AvgGrowth(tng_students),
                  students |-> tng_students,
                  detail_counts |-> [ neg_growth_count |-> Len(SelectSeq(tng_students, Neg)) ] ] >>
        ELSE <<>>

\* list.sort(key=...): the stable ascending sort, keys[i] being the key of list[i]
StableSort(list, keys) ==
    LET n == Len(list)
        rank(i) == 1 + Cardinality({j \in 1..n :
                        \/ keys[j] < keys[i]
                        \/ (keys[j] = keys[i] /\ j < i)})
    IN  [p \in 1..n |-> list[CHOOSE i \in 1..n : rank(i) = p]]

\* ranked.sort(key=lambda x: -x['count']); return ranked[:3]
RankTop3(ranked) ==
    LET sorted == StableSort(ranked, [i \in 1..Len(ranked) |-> -ranked[i].count])
    IN  SubSeq(sorted, 1, IF Len(sorted) < 3 THEN Len(sorted) ELSE 3)

detect_systemic_issues(students) ==
    RankTop3(OverTestingDoom(students) \o MissingReadingInstruction(students)
             \o TimeNoGrowth(students))

\* GrowthKey with an absent growth sorted as a growth of 0
GrowthKeyAbsentAsZero(st) == IF notna(st.growth) THEN st.growth ELSE 0

\* all_students.sort(key=lambda s: s['growth'] if s['growth'] is not None else 999)
GrowthKey(st) == IF notna(st.growth) THEN st.growth ELSE Dec(999)

SortByGrowthKey(students) ==
    StableSort(students, [i \in 1..Len(students) |-> GrowthKey(students[i])])

-----------------------------------------------------------------------------
(* analyze_low_growth.py, the legacy analysis script.  A name is the         *)
(* sequence of its characters, so that str.split and str.contains are        *)
(* computed on the characters.  str.contains searches for its argument as a  *)
(* regular expression: of the metacharacters, the model has the period,      *)
(* which matches any character; the names hold no other one.                 *)

Bobbi == <<"B", "o", "b", "b", "i">>
Brown == <<"B", "r", "o", "w", "n">>
Sue == <<"S", "u", "e">>
Nathan == <<"N", "a", "t", "h", "a", "n">>
Nathaniel == Nathan \o <<"i", "e", "l">>
Scharf == <<"S", "c", "h", "a", "r", "f">>
Rhys == <<"R", "h", "y", "s">>
\* "Björendahl": the one character ö is the element "o-umlaut"
BjorendahlUmlaut == <<"B", "j", "o-umlaut", "r", "e", "n", "d", "a", "h", "l">>
Bjorendahl == <<"B", "j", "o", "r", "e", "n", "d", "a", "h", "l">>

\* first and last name joined by one space
FullName(first, last) == first \o <<" ">> \o last

\* NAME_MAP, lines 66-70
NAME_MAP_KEYS ==
    {FullName(Bobbi, Brown), FullName(Nathan, Scharf), FullName(Rhys, BjorendahlUmlaut)}

NAME_MAP(key) ==
    IF key = FullName(Bobbi, Brown)
    THEN <<FullName(Bobbi, Brown), FullName(Bobbi, FullName(Sue, Brown))>>
    ELSE IF key = FullName(Nathan, Scharf)
    THEN <<FullName(Nathan, Scharf), FullName(Nathaniel, Scharf)>>
    ELSE <<FullName(Rhys, BjorendahlUmlaut), FullName(Rhys, Bjorendahl)>>

RECURSIVE SplitFrom(_, _, _)
\* the tokens of s from position i on, cur being the token in progress
SplitFrom(s, i, cur) ==
    LET done == IF cur = <<>> THEN <<>> ELSE <<cur>>
    IN  IF i > Len(s) THEN done
        ELSE IF s[i] = " " THEN done \o SplitFrom(s, i + 1, <<>>)
        ELSE SplitFrom(s, i + 1, Append(cur, s[i]))

\* student_name.split()
split(s) == SplitFrom(s, 1, <<>>)

\* one character of a name against one character of a pattern
MatchesChar(c, p) == p = "." \/ c = p

\* str.contains(pat) on one name: re.search(pat, s) finds a match
contains(s, pat) ==
    \E i \in 1..(Len(s) - Len(pat) + 1) :
        \A k \in 1..Len(pat) : MatchesChar(s[i + k - 1], pat[k])

\* df[df[name_col] == name]
RowsNamed(df, name) ==
    LET IsNamed(r) == r.fullname = name
    IN  SelectSeq(df, IsNamed)

\* the rows of the first name of alt_names that has rows, <<>> when none has
FirstAliasRows(df, alt_names) ==
    LET hits == {k \in 1..Len(alt_names) : Len(RowsNamed(df, alt_names[k])) > 0}
    IN  IF hits = {} THEN <<>>
        ELSE RowsNamed(df, alt_names[CHOOSE k \in hits : \A j \in hits : k <= j])

\* the partial match: rows whose name contains parts[0] and parts[-1]
PartialRows(df, name) ==
    LET parts == split(name)
        HasBoth(r) == contains(r.fullname, parts[1])
                      /\ contains(r.fullname, parts[Len(parts)])
    IN  IF Len(parts) >= 2 THEN SelectSeq(df, HasBoth) ELSE <<>>

\* find_student_in_df(student_name, df, 'fullname'); pd.DataFrame() is <<>>
find_student_in_df(name, df) ==
    IF Len(RowsNamed(df, name)) > 0 THEN RowsNamed(df, name)
    ELSE IF name \in NAME_MAP_KEYS /\ Len(FirstAliasRows(df, NAME_MAP(name))) > 0
    THEN FirstAliasRows(df, NAME_MAP(name))
    ELSE PartialRows(df, name)

\* minutes_data[minutes_data['subject'] == 'Reading']
ReadingRows(df) ==
    LET IsReading(r) == r.subject = "Reading"
    IN  SelectSeq(df, IsReading)

\* the entry the time analysis appends for one student
TimeEntry(name, found, days, expected) ==
    LET reading_mins ==
            IF Len(found) > 0
            THEN Sum([i \in 1..Len(found) |-> found[i].active_minutes])
            ELSE 0
    IN  [Student |-> name,
         Reading_Min |-> reading_mins,
         Expected_Min |-> expected,
         Pct_Expected |-> IF expected > 0 THEN RoundPct(reading_mins, expected) ELSE 0,
         Daily_Avg |-> IF days > 0 THEN RoundDiv(reading_mins, days) ELSE 0]

\* the category tables of the legacy script, lines 174-179
LEGACY_INSTRUCTION_APPS == {"Alpha Read", "MobyMax"}
LEGACY_TESTING_APPS == {"Mastery Track", "100 for 100", "Alpha Tests", "100x100"}
LEGACY_EARLY_LIT_APPS == {"Anton", "ClearFluency", "Amplify", "Mentava", "Literably",
                          "Lalilo", "Lexia Core5", "FastPhonics", "TeachTales"}
LEGACY_ADMIN_APPS == {"Manual XP Assign", "Timeback UI", "TimeBack Dash", "Manual XP",
                      "Acely SAT", "AlphaLearn"}

\* categorize_app of the legacy script, lines 181-191
legacy_categorize_app(app_name) ==
    IF app_name \in LEGACY_INSTRUCTION_APPS THEN "Instruction"
    ELSE IF app_name \in LEGACY_TESTING_APPS THEN "Testing"
    ELSE IF app_name \in LEGACY_EARLY_LIT_APPS THEN "Early Lit"
    ELSE IF app_name \in LEGACY_ADMIN_APPS THEN "Admin/Other"
    ELSE "Unknown"

\* the XP of the rows of found that the script puts in category cat
LegacyXp(found, cat) ==
    Sum([i \in 1..Len(found) |->
            IF legacy_categorize_app(found[i].app) = cat THEN found[i].xp_earned ELSE 0])

\* the entry the XP analysis appends for one student
XpEntry(name, found) ==
    LET instruction_xp == LegacyXp(found, "Instruction")
        testing_xp == LegacyXp(found, "Testing")
        early_lit_xp == LegacyXp(found, "Early Lit")
        admin_xp == LegacyXp(found, "Admin/Other")
        unknown_xp == LegacyXp(found, "Unknown")
        total_xp == instruction_xp + testing_xp + early_lit_xp + admin_xp + unknown_xp
    IN  [Student |-> name,
         Instruction_XP |-> instruction_xp,
         Testing_XP |-> testing_xp,
         Early_Lit_XP |-> early_lit_xp,
         Admin_XP |-> admin_xp,
         Total_XP |-> total_xp,
         Pct_Instruction |->
             IF total_xp > 0 THEN RoundPct(instruction_xp, total_xp) ELSE 0,
         Pct_Testing |->
             IF total_xp > 0 THEN RoundPct(testing_xp, total_xp) ELSE 0,
         Pct_Early_Lit |->
             IF total_xp > 0 THEN RoundPct(early_lit_xp, total_xp) ELSE 0]

\* one row of the test-history export: the column Student is the field
\* fullname and the column Subject the field subject, as find_student_in_df
\* and the Reading filter read them
TestRow(fullname, subject, grade, attempt) ==
    [fullname |-> fullname, subject |-> subject, test_grade |-> grade,
     attempt |-> attempt]

\* student_tests.groupby('Test Grade')['Test Attempt #'].max() at grade g:
\* the largest attempt number present, NaN when none is
attempts_by_grade(student_tests, g) ==
    LET present == {student_tests[i].attempt : i \in
                       {j \in 1..Len(student_tests) :
                           /\ student_tests[j].test_grade = g
                           /\ notna(student_tests[j].attempt)}}
    IN  IF present = {} THEN NaN ELSE CHOOSE x \in present : \A y \in present : x >= y

\* attempts_by_grade[attempts_by_grade >= 3].index: groupby drops the rows
\* without a grade, and an absent maximum is not >= 3
doom_loop_grades(student_tests) ==
    {g \in {student_tests[i].test_grade : i \in 1..Len(student_tests)} :
        /\ notna(g)
        /\ notna(attempts_by_grade(student_tests, g))
        /\ attempts_by_grade(student_tests, g) >= 3}

\* the entry the test-history analysis appends for one student
TestEntry(name, found) ==
    [Student |-> name,
     Total_Tests |-> Len(found),
     Doom_Loop_Grades |-> IF Len(found) = 0 THEN {} ELSE doom_loop_grades(found)]

\* next((x for x in results if x['Student'] == name), None): the entries
\* under the name, of which the script takes the first; <<>> is None
EntriesFor(results, name) ==
    LET IsFor(r) == r.Student = name
    IN  SelectSeq(results, IsFor)

\* str(rushed).lower() on the values the column holds; a missing cell is "nan"
lower(s) ==
    CASE s \in {"Yes", "YES", "yes"} -> "yes"
      [] s \in {"True", "TRUE", "true"} -> "true"
      [] s \in {"No", "NO", "no"} -> "no"
      [] OTHER -> s

\* the clusters the script prints, lines 715-716
CLUSTER_NAMES ==
    {"Low Effort", "Over-Testing", "Wrong Apps (Early Lit)", "No Instruction",
     "Test Doom Loop", "Adequate Effort, Bad Test", "Quality Issue", "Mixed/Unclear"}

\* the list l with x appended when cond holds
AppendIf(l, cond, x) == IF cond THEN Append(l, x) ELSE l

\* the rule-based clusters of one student, lines 675-700, in the order the
\* script appends them; xp_rs and test_rs are the entries found under the name
RuleClusters(time_r, xp_rs, test_rs, rushed_cell) ==
    LET has_xp == Len(xp_rs) > 0
        c1 == AppendIf(<<>>, time_r.Pct_Expected < Dec(50), "Low Effort")
        c2 == AppendIf(c1, has_xp /\ xp_rs[1].Pct_Testing > Dec(50), "Over-Testing")
        c3 == AppendIf(c2, has_xp /\ xp_rs[1].Pct_Early_Lit > Dec(10),
                       "Wrong Apps (Early Lit)")
        c4 == AppendIf(c3, has_xp /\ xp_rs[1].Instruction_XP = 0
                                  /\ xp_rs[1].Total_XP > 0, "No Instruction")
        c5 == AppendIf(c4, Len(test_rs) > 0 /\ test_rs[1].Doom_Loop_Grades # {},
                       "Test Doom Loop")
    IN  AppendIf(c5, /\ time_r.Pct_Expected >= Dec(75)
                     /\ lower(rushed_cell) \in {"yes", "true"},
                 "Adequate Effort, Bad Test")

\* StudentClusters with 'Quality Issue' appended on adequate time alone
StudentClustersQualityOnTime(time_r, xp_rs, test_rs, rushed_cell) ==
    LET rules == RuleClusters(time_r, xp_rs, test_rs, rushed_cell)
        quality == AppendIf(rules, time_r.Pct_Expected >= Dec(75), "Quality Issue")
    IN  AppendIf(quality, quality = <<>>, "Mixed/Unclear")

\* student_clusters of one student, lines 673-708
StudentClusters(time_r, xp_rs, test_rs, rushed_cell) ==
    LET rules == RuleClusters(time_r, xp_rs, test_rs, rushed_cell)
        quality == AppendIf(rules, rules = <<>> /\ time_r.Pct_Expected >= Dec(75),
                            "Quality Issue")
    IN  AppendIf(quality, quality = <<>>, "Mixed/Unclear")

-----------------------------------------------------------------------------
(* Bounds and input domains *)

\* longest test-attempt table enumerated
MaxTests == 4
\* most students processed in one run
MaxStudents == 3

SeqUpTo(S, n) == UNION {[1..k -> S] : k \in 0..n}

\* one row of the reading-results export
Attempt(email, subject, day, grade, score) ==
    [student_email |-> email, subject |-> subject, score_date_utc |-> day,
     test_grade |-> grade, score |-> score]

\* one Reading row of the MAP analysis sheet
MapRow(email, level, hmg, age, fall, winter, growth) ==
    [Email |-> email, Level |-> level, HMG |-> hmg, Age_Grade |-> age,
     Fall_RIT |-> fall, Winter_RIT |-> winter, Growth_FW |-> growth]

\* one row of the daily metrics export
Activity(app, xp, minutes) ==
    [app |-> app, XP_Earned |-> xp, Active_Minutes |-> minutes]

EmptyRow == MapRow("", "", NaN, NaN, NaN, NaN, NaN)

\* --- test tables that vary grade and score (in-term Reading rows of one student)
GradeScoreKinds ==
    {<<Dec(5), 894>>, <<Dec(5), 895>>, <<Dec(5), NaN>>,
     <<Dec(7), 894>>, <<Dec(7), 895>>, <<NaN, 894>>, <<NaN, 895>>}

TestsTables ==
    SeqUpTo({Attempt("a", "Reading", 10, k[1], k[2]) : k \in GradeScoreKinds}, MaxTests)

TestsRows ==
    {MapRow("a", "MS", h, Dec(6), 2000, 2050, 50) : h \in {NaN, 0, Dec(1), 15, Dec(4), Dec(6), 65}}

\* --- assessment rows that vary level, HMG, age grade, scores and growth
BandTables ==
    { <<>>,
      <<Attempt("a", "Reading", 10, Dec(7), 1000)>>,
      <<Attempt("a", "Reading", 10, Dec(9), 1000)>>,
      <<Attempt("a", "Reading", 10, Dec(7), 500)>> }

BandRows ==
    {MapRow("a", l, h, g, f, w, gr) :
        l \in {"HS", "MS"},
        h \in {NaN, 0, Dec(1), 15, Dec(2), Dec(7), 75, Dec(8), Dec(12), Dec(13)},
        g \in {NaN, Dec(2), Dec(3), Dec(8), Dec(9)},
        f \in {NaN, 2000},
        w \in {NaN, 2050},
        gr \in {NaN, -20, 0, 50}}

\* --- raw tables that vary subject and submission date
LoadKinds ==
    {<<"Math", 10>>, <<"Reading", NaN>>, <<"Reading", START_DATE - 1>>,
     <<"Reading", START_DATE>>, <<"Reading", END_DATE>>, <<"Reading", END_DATE + 1>>}

LoadTables ==
    SeqUpTo({Attempt("a", k[1], k[2], Dec(5), 500) : k \in LoadKinds}, MaxTests)

LoadRows == {MapRow("a", "MS", h, Dec(6), 2000, 2050, 50) : h \in {NaN, Dec(4)}}

\* --- several students: a few rows, activity profiles and test tables
ThreeFails(email, grade) ==
    [i \in 1..3 |-> Attempt(email, "Reading", 10 + i, grade, 500)]

SysTables ==
    { <<>>,
      ThreeFails("a", Dec(5)) \o ThreeFails("b", Dec(10)) }

SysRows ==
    { MapRow("a", "MS", Dec(6), Dec(6), 2000, 1980, -20),
      MapRow("a", "HS", Dec(9), Dec(9), NaN, NaN, NaN),
      MapRow("b", "HS", Dec(9), Dec(9), 2000, 2030, 30),
      MapRow("c", "MS", NaN, NaN, 2000, 2000, 0) }

NoActivity == <<>>
TestingHeavy == <<Activity("Alpha Tests", 60, 1000), Activity("Alpha Read", 40, 1200)>>
MobyMaxOnly == <<Activity("MobyMax", 100, 1500)>>

SysDailies == {NoActivity, TestingHeavy, MobyMaxOnly}

\* --- one student's activity rows: up to MaxApps rows, an app of each
\* category, one the lists do not hold and a row with no app name, with
\* amounts that put a share just above one half (1001 of 2001 XP) and minutes
\* just below half (1074) and just below the whole (1074 + 1075) of the 2150
\* expected
MaxApps == 2

ActivityApps == {"MobyMax", "Alpha Read", "Alpha Tests", "Anton", "Freckle", MissingApp}

ActivityKinds ==
    {Activity(a, 1000, 1074) : a \in ActivityApps}
    \cup {Activity("Alpha Tests", 1001, 1076), Activity("MobyMax", 0, 0),
          Activity("Alpha Read", 1, 1075)}

ActivityDailies == SeqUpTo(ActivityKinds, MaxApps)

ActivityRows ==
    {MapRow("a", "MS", h, Dec(6), 2000, 2000 + g, g) :
        h \in {NaN, Dec(2), Dec(7), 75, Dec(8)}, g \in {-20, 0, 50}}
    \cup {MapRow("a", "MS", h, Dec(6), NaN, NaN, NaN) :
            h \in {NaN, Dec(2), Dec(7), 75, Dec(8)}}

\* --- calendar configurations: the term as configured, a term that ends
\* before the breaks, terms of one weekday (offset 0 is Thursday 2025-08-14)
\* and of a weekend only, a start after the end, and zero to four half-days
Starts == {START_DATE, 2, END_DATE + 1}

Ends == {START_DATE, 3, 126, END_DATE}

HalfDaySets == {{}, {125}, HALF_DAYS, {124, 125, 126}, {123, 124, 125, 126}}

\* --- the legacy script's inputs: student names with and without a NAME_MAP
\* entry, of one token and with an initial ('B. Brown'), and exports of up to MaxRows rows under names that
\* match them exactly, through an alias or only in part
MaxRows == 2

Jo == <<"J", "o">>

LegacyNames ==
    {FullName(Bobbi, Brown), FullName(Nathan, Scharf), FullName(Rhys, BjorendahlUmlaut),
     FullName(Sue, Brown), FullName(<<"B", ".">>, Brown), Rhys}

ExportNames ==
    {FullName(Bobbi, Brown), FullName(Bobbi, FullName(Sue, Brown)),
     FullName(Bobbi, FullName(Jo, Brown)), FullName(Nathaniel, Scharf),
     FullName(Rhys, Bjorendahl)}

\* one row of the weekly-minutes export
MinutesRow(fullname, subject, minutes) ==
    [fullname |-> fullname, subject |-> subject, active_minutes |-> minutes]

\* one row of the weekly-XP export
XpRow(fullname, app, xp) == [fullname |-> fullname, app |-> app, xp_earned |-> xp]

MinutesFrames ==
    SeqUpTo({MinutesRow(n, "Reading", 30) : n \in ExportNames}
            \cup {MinutesRow(FullName(Bobbi, Brown), "Math", 40),
                  MinutesRow(FullName(Bobbi, FullName(Sue, Brown)), "Math", 40)},
            MaxRows)

LegacyApps ==
    {"MobyMax", "Alpha Read", "Alpha Tests", "Anton", "Manual XP", "Clear Fluency",
     "Freckle", "mobymax"}

XpFrames ==
    SeqUpTo({XpRow(FullName(Bobbi, Brown), a, 100) : a \in LegacyApps}, 1)
    \cup {<<XpRow(FullName(Bobbi, Brown), "MobyMax", 100),
            XpRow(FullName(Bobbi, Brown), "Alpha Tests", 300)>>}

\* --- the clustering's inputs: reading minutes on both sides of 50% and of
\* 75% of the 2150 expected minutes, the answers of the 'Rushed MAP test?'
\* column, and test histories with and without a third attempt at a grade
ClusterNames == {FullName(Bobbi, Brown), FullName(Sue, Brown)}

RushedCells == {"Yes", "TRUE", "No", "nan"}

ClusterMinutes ==
    SeqUpTo({MinutesRow(FullName(Bobbi, Brown), "Reading", mins) :
                mins \in {1000, 1200, 1700}}, MaxRows)

TestFrames ==
    {<<>>,
     <<TestRow(FullName(Bobbi, Brown), "Reading", Dec(5), 3)>>,
     <<TestRow(FullName(Bobbi, Brown), "Reading", Dec(5), 1),
       TestRow(FullName(Bobbi, Brown), "Reading", Dec(5), 2)>>,
     <<TestRow(FullName(Bobbi, Brown), "Math", Dec(5), 3)>>,
     <<TestRow(FullName(Bobbi, Brown), "Reading", NaN, 3),
       TestRow(FullName(Bobbi, Brown), "Reading", Dec(4), NaN)>>}

-----------------------------------------------------------------------------
(* main *)

\* everything main has not assigned yet
InitRun ==
    /\ pc = "load"
    /\ effective_days = 0
    /\ expected_minutes = 0
    /\ raw_results = <<>>
    /\ results_df = <<>>
    /\ row = EmptyRow
    /\ daily_data = <<>>
    /\ test_data = <<>>
    /\ all_students = <<>>
    /\ systemic_issues = <<>>
    /\ lg_pc = "load"
    /\ student_name = <<>>
    /\ minutes_data = <<>>
    /\ xp_data = <<>>
    /\ mins_df = <<>>
    /\ time_results = <<>>
    /\ student_xp = <<>>
    /\ app_cats = <<>>
    /\ xp_results = <<>>
    /\ rushed = ""
    /\ test_history = <<>>
    /\ test_results = <<>>
    /\ student_clusters = <<>>
    /\ clusters = [c \in CLUSTER_NAMES |-> <<>>]

\* the run over the calendar as configured in the scripts
Init ==
    /\ start_date = START_DATE
    /\ end_date = END_DATE
    /\ half_days = HALF_DAYS
    /\ InitRun

\* step 2: effective_days, expected_minutes, school_day_dates = compute_school_days()
ComputeSchoolDays ==
    /\ pc = "calendar"
    /\ effective_days' = compute_school_days(start_date, end_date).effective_days
    /\ expected_minutes' = compute_school_days(start_date, end_date).expected_minutes
    /\ pc' = "process"
    /\ UNCHANGED <<config, legacy, raw_results, results_df, row, daily_data, test_data,
                   all_students, systemic_issues>>

\* step 1: results_df = load_reading_results(), the file holding one of Tables
LoadReadingResults(Tables) ==
    /\ pc = "load"
    /\ \E raw \in Tables :
        /\ raw_results' = raw
        /\ results_df' = load_reading_results(raw)
    /\ pc' = "calendar"
    /\ UNCHANGED <<config, legacy, effective_days, expected_minutes, row, daily_data,
                   test_data, all_students, systemic_issues>>

\* ProcessStudent that hands a student without activity rows the rows of the
\* student processed before
ProcessStudentCarryOver(Rows, Dailies, max) ==
    /\ pc = "process"
    /\ Len(all_students) < max
    /\ \E r \in Rows, d \in Dailies :
        LET student_tests == results_by_email(results_df, r.Email)
        IN  /\ row' = r
            /\ daily_data' = d
            /\ test_data' = student_tests
            /\ all_students' = Append(all_students,
                   compute_student_metrics(r, IF d = <<>> THEN daily_data ELSE d,
                                           student_tests,
                                           effective_days, expected_minutes))
    /\ UNCHANGED <<config, legacy, pc, effective_days, expected_minutes, raw_results,
                   results_df, systemic_issues>>

\* step 4, one turn of the loop over map_df: the next row is one of Rows and
\* the student's activity rows are one of Dailies
ProcessStudent(Rows, Dailies, max) ==
    /\ pc = "process"
    /\ Len(all_students) < max
    /\ \E r \in Rows, d \in Dailies :
        LET student_tests == results_by_email(results_df, r.Email)
        IN  /\ row' = r
            /\ daily_data' = d
            /\ test_data' = student_tests
            /\ all_students' = Append(all_students,
                   compute_student_metrics(r, d, student_tests,
                                           effective_days, expected_minutes))
    /\ UNCHANGED <<config, legacy, pc, effective_days, expected_minutes, raw_results,
                   results_df, systemic_issues>>

\* step 6, after the last row: all_students.sort(...)
SortByGrowth ==
    /\ pc = "process"
    /\ all_students' = SortByGrowthKey(all_students)
    /\ pc' = "detect"
    /\ UNCHANGED <<config, legacy, effective_days, expected_minutes, raw_results,
                   results_df, row, daily_data, test_data, systemic_issues>>

\* step 8: systemic_issues = detect_systemic_issues(all_students)
DetectSystemicIssues ==
    /\ pc = "detect"
    /\ systemic_issues' = detect_systemic_issues(all_students)
    /\ pc' = "done"
    /\ UNCHANGED <<config, legacy, effective_days, expected_minutes, raw_results,
                   results_df, row, daily_data, test_data, all_students>>

\* the whole run over several students
Next ==
    \/ LoadReadingResults(SysTables)
    \/ ComputeSchoolDays
    \/ ProcessStudent(SysRows, SysDailies, MaxStudents)
    \/ SortByGrowth
    \/ DetectSystemicIssues

Spec == Init /\ [][Next]_vars

\* one student, every table of test attempts up to MaxTests rows
NextTests ==
    \/ LoadReadingResults(TestsTables)
    \/ ComputeSchoolDays
    \/ ProcessStudent(TestsRows, {NoActivity}, 1)
    \/ SortByGrowth
    \/ DetectSystemicIssues

SpecTests == Init /\ [][NextTests]_vars

\* one student, every assessment row
NextBand ==
    \/ LoadReadingResults(BandTables)
    \/ ComputeSchoolDays
    \/ ProcessStudent(BandRows, {NoActivity}, 1)
    \/ SortByGrowth
    \/ DetectSystemicIssues

SpecBand == Init /\ [][NextBand]_vars

\* one student, every raw table of subjects and dates up to MaxTests rows
NextLoad ==
    \/ LoadReadingResults(LoadTables)
    \/ ComputeSchoolDays
    \/ ProcessStudent(LoadRows, {NoActivity}, 1)
    \/ SortByGrowth
    \/ DetectSystemicIssues

SpecLoad == Init /\ [][NextLoad]_vars

\* one student, every table of activity rows up to MaxApps rows
NextActivity ==
    \/ LoadReadingResults({<<>>})
    \/ ComputeSchoolDays
    \/ ProcessStudent(ActivityRows, ActivityDailies, 1)
    \/ SortByGrowth
    \/ DetectSystemicIssues

SpecActivity == Init /\ [][NextActivity]_vars

\* the run over every calendar configuration of Starts, Ends and HalfDaySets
InitCalendar ==
    /\ start_date \in Starts
    /\ end_date \in Ends
    /\ half_days \in HalfDaySets
    /\ InitRun

NextCalendar ==
    \/ LoadReadingResults({<<>>})
    \/ ComputeSchoolDays
    \/ ProcessStudent(ActivityRows, SysDailies, 1)
    \/ SortByGrowth
    \/ DetectSystemicIssues

SpecCalendar == InitCalendar /\ [][NextCalendar]_vars

-----------------------------------------------------------------------------
(* the legacy analysis script, for one row of the deep-dive sheet *)

\* section 1: the three exports are read
LoadLegacy(Names, Cells, Minutes, Xps, Tests) ==
    /\ lg_pc = "load"
    /\ student_name' \in Names
    /\ rushed' \in Cells
    /\ minutes_data' \in Minutes
    /\ xp_data' \in Xps
    /\ test_history' \in Tests
    /\ lg_pc' = "time"
    /\ UNCHANGED <<config, run, mins_df, time_results, student_xp, app_cats,
                   xp_results, test_results, student_clusters, clusters>>

\* analysis 1, one turn of the loop over deep_dive
TimeOnTask ==
    /\ lg_pc = "time"
    /\ LET found == find_student_in_df(student_name, ReadingRows(minutes_data))
           calendar == compute_school_days(start_date, end_date)
       IN  /\ mins_df' = found
           /\ time_results' = Append(time_results,
                  TimeEntry(student_name, found, calendar.effective_days,
                            calendar.expected_minutes))
    /\ lg_pc' = "xp"
    /\ UNCHANGED <<config, run, student_name, minutes_data, xp_data, student_xp,
                   app_cats, xp_results, rushed, test_history, test_results,
                   student_clusters, clusters>>

\* analysis 2, one turn of the loop over deep_dive
XpBreakdown ==
    /\ lg_pc = "xp"
    /\ LET found == find_student_in_df(student_name, xp_data)
       IN  /\ student_xp' = found
           /\ app_cats' = [i \in 1..Len(found) |-> legacy_categorize_app(found[i].app)]
           /\ xp_results' = Append(xp_results, XpEntry(student_name, found))
    /\ lg_pc' = "tests"
    /\ UNCHANGED <<config, run, student_name, minutes_data, xp_data, mins_df,
                   time_results, rushed, test_history, test_results,
                   student_clusters, clusters>>

\* analysis 8, one turn of the loop over deep_dive
TestHistoryDeepDive ==
    /\ lg_pc = "tests"
    /\ test_results' = Append(test_results,
           TestEntry(student_name,
                     find_student_in_df(student_name, ReadingRows(test_history))))
    /\ lg_pc' = "cluster"
    /\ UNCHANGED <<config, run, student_name, minutes_data, xp_data, mins_df,
                   time_results, student_xp, app_cats, xp_results, rushed,
                   test_history, student_clusters, clusters>>

\* analysis 7, one turn of the loop over time_results
Clustering ==
    /\ lg_pc = "cluster"
    /\ LET name == time_results[Len(time_results)].Student
           assigned == StudentClusters(time_results[Len(time_results)],
                                       EntriesFor(xp_results, name),
                                       EntriesFor(test_results, name), rushed)
       IN  /\ student_clusters' = assigned
           /\ clusters' = [c \in CLUSTER_NAMES |->
                              IF c \in Range(assigned) THEN Append(clusters[c], name)
                              ELSE clusters[c]]
    /\ lg_pc' = "done"
    /\ UNCHANGED <<config, run, student_name, minutes_data, xp_data, mins_df,
                   time_results, student_xp, app_cats, xp_results, rushed,
                   test_history, test_results>>

NextLegacy ==
    \/ LoadLegacy(LegacyNames, {"nan"}, MinutesFrames, XpFrames, {<<>>})
    \/ TimeOnTask
    \/ XpBreakdown
    \/ TestHistoryDeepDive
    \/ Clustering

SpecLegacy == Init /\ [][NextLegacy]_vars

NextCluster ==
    \/ LoadLegacy(ClusterNames, RushedCells, ClusterMinutes, XpFrames, TestFrames)
    \/ TimeOnTask
    \/ XpBreakdown
    \/ TestHistoryDeepDive
    \/ Clustering

SpecCluster == Init /\ [][NextCluster]_vars

-----------------------------------------------------------------------------
(* Properties.  In the one-student specifications the StudentMetrics record  *)
(* of the student is all_students[1]; row, daily_data and test_data are the  *)
(* inputs it was computed from.                                              *)

Processed == Len(all_students) = 1
m == all_students[1]

\* the whole grades a test can be at
Grades == {Dec(n) : n \in 0..13}

\* indices of the student's attempts at grade g that failed / passed, counted
\* directly on the score
FailsAt(g) ==
    {i \in 1..Len(test_data) :
        /\ test_data[i].test_grade = g
        /\ test_data[i].score # NaN
        /\ test_data[i].score < PASS_THRESHOLD}

PassesAt(g) ==
    {i \in 1..Len(test_data) :
        /\ test_data[i].test_grade = g
        /\ test_data[i].score # NaN
        /\ test_data[i].score >= PASS_THRESHOLD}

\* C1: a grade is a doom-loop grade exactly when the student has three or more
\* failing attempts (score below 89.5) at it and no passing attempt at it; a
\* grade with a passing attempt is never a doom-loop grade.
C1_DoomGradesIff ==
    Processed =>
        \A g \in Grades :
            g \in m.doom_grades <=>
                (Cardinality(FailsAt(g)) >= 3 /\ PassesAt(g) = {})

\* C1 witness: three failures at grade 5 with a pass between them (a failure
\* before it and a failure after it), and grade 5 is not a doom-loop grade
C1_Witness ==
    /\ Processed
    /\ Cardinality(FailsAt(Dec(5))) >= 3
    /\ \E i \in FailsAt(Dec(5)), j \in PassesAt(Dec(5)), k \in FailsAt(Dec(5)) :
          i < j /\ j < k
    /\ Dec(5) \notin m.doom_grades

\* C2: the HMG fallback never lowers a spreadsheet value: a present spreadsheet
\* HMG is never above the resolved HMG, and a spreadsheet HMG greater than 1 is
\* the resolved HMG whatever the test attempts are.
C2_FallbackNeverLowers ==
    Processed =>
        (row.HMG # NaN =>
            /\ m.hmg # NaN
            /\ m.hmg >= row.HMG
            /\ (row.HMG > Dec(1) => m.hmg = row.HMG))

\* C2 witness: spreadsheet HMG 6, a passing attempt at grade 5, resolved HMG 6
C2_Witness ==
    /\ Processed
    /\ row.HMG = Dec(6)
    /\ PassesAt(Dec(5)) # {}
    /\ m.hmg = Dec(6)

\* the grades of the passing attempts that record a grade
PassedGradeSet ==
    {test_data[i].test_grade : i \in {j \in 1..Len(test_data) :
        /\ test_data[j].score # NaN
        /\ test_data[j].score >= PASS_THRESHOLD
        /\ test_data[j].test_grade # NaN}}

\* C3: with a spreadsheet HMG that is absent or <= 1, the resolved HMG is the
\* largest grade among the passing attempts when that exceeds the spreadsheet
\* value or the spreadsheet value is absent, and the spreadsheet value
\* otherwise; with no passing attempt (or none that records a grade) it is the
\* unchanged spreadsheet value.
C3_FallbackTakesMaxPassed ==
    Processed =>
        ((row.HMG = NaN \/ row.HMG <= Dec(1)) =>
            IF PassedGradeSet = {}
            THEN m.hmg = row.HMG
            ELSE LET top == CHOOSE g \in PassedGradeSet :
                                \A h \in PassedGradeSet : h <= g
                 IN  IF row.HMG = NaN \/ top > row.HMG
                     THEN m.hmg = top
                     ELSE m.hmg = row.HMG)

\* C3 witness: spreadsheet HMG 1, passing attempts at grade 5 and at grade 7,
\* a failed one besides, resolved HMG 7
C3_Witness ==
    /\ Processed
    /\ row.HMG = Dec(1)
    /\ PassesAt(Dec(7)) # {}
    /\ PassesAt(Dec(5)) # {}
    /\ m.hmg = Dec(7)

\* C4: reading_group is always 'G3-8' or 'G9+', never the empty string, and a
\* student with no resolved HMG and no age grade is in 'G3-8'.
C4_BandTotal ==
    Processed =>
        /\ m.reading_group \in {"G3-8", "G9+"}
        /\ (m.hmg = NaN /\ row.Age_Grade = NaN => m.reading_group = "G3-8")

\* C4 witness: an HS student with no HMG and no age grade, placed in 'G3-8'
C4_Witness ==
    /\ Processed
    /\ row.Level = "HS"
    /\ m.hmg = NaN
    /\ row.Age_Grade = NaN
    /\ m.reading_group = "G3-8"

\* C5: reading_group is 'G9+' exactly when the level is HS and either the
\* resolved HMG is >= 8, or the resolved HMG is absent or <= 1 and the age
\* grade is >= 9; in every other case it is 'G3-8'.
C5_BandPriority ==
    Processed =>
        LET upper ==
                /\ row.Level = "HS"
                /\ \/ (m.hmg # NaN /\ m.hmg >= Dec(8))
                   \/ /\ (m.hmg = NaN \/ m.hmg <= Dec(1))
                      /\ row.Age_Grade # NaN
                      /\ row.Age_Grade >= Dec(9)
        IN  m.reading_group = (IF upper THEN "G9+" ELSE "G3-8")

\* C5 witness: an HS student with resolved HMG 8 and age grade 8: rule (a)
\* wins over the age-grade rule (c)
C5_Witness ==
    /\ Processed
    /\ row.Level = "HS"
    /\ m.hmg = Dec(8)
    /\ row.Age_Grade = Dec(8)
    /\ m.reading_group = "G9+"

\* C6: the growth of a StudentMetrics record is absent (growth_category
\* 'unknown') whenever the fall score or the winter score of the assessment
\* row is absent.
C6_GrowthAbsentWithoutScores ==
    Processed =>
        (m.fall_rit = NaN \/ m.winter_rit = NaN =>
            m.growth = NaN /\ m.growth_category = "unknown")

\* the rows of the raw export that are Reading and dated inside the term
InTerm(tr) ==
    /\ tr.subject = "Reading"
    /\ tr.score_date_utc # NaN
    /\ START_DATE <= tr.score_date_utc
    /\ tr.score_date_utc <= END_DATE

\* C7: only Reading attempts dated inside the term window (START_DATE to
\* END_DATE) reach the per-student test metrics: every attempt handed to
\* compute_student_metrics is one, and total_tests counts exactly those.
C7_OnlyInTermAttempts ==
    Processed =>
        /\ \A i \in 1..Len(test_data) : InTerm(test_data[i])
        /\ m.total_tests =
             Cardinality({i \in 1..Len(raw_results) :
                 raw_results[i].student_email = row.Email /\ InTerm(raw_results[i])})

\* number of students whose issue set holds the flag
Affected(issue) ==
    Cardinality({i \in 1..Len(all_students) :
        \E k \in 1..Len(all_students[i].issues) : all_students[i].issues[k] = issue})

\* the summary of systemic_issues with the key, as a set (empty when absent)
Summary(key) ==
    {systemic_issues[i] : i \in {j \in 1..Len(systemic_issues) :
        systemic_issues[j].key = key}}

\* the raw flags that are no part of a merged category
UnmergedIssues ==
    {"TIME_NO_GROWTH", "LOW_ENGAGEMENT", "LARGE_GAP", "LOW_EFFECTIVE_TESTS",
     "AT_GRADE_NO_MOTIVATION"}

\* C8: detect_systemic_issues returns at most three summaries, in
\* non-increasing order of count, and no issue category left out of the result
\* has more affected students than a category in the result.
C8_Top3ByPrevalence ==
    pc = "done" =>
        /\ Len(systemic_issues) <= 3
        /\ \A i \in 1..Len(systemic_issues) - 1 :
              systemic_issues[i].count >= systemic_issues[i + 1].count
        /\ \A issue \in UnmergedIssues :
              Summary(issue) = {} =>
                  \A i \in 1..Len(systemic_issues) :
                      Affected(issue) <= systemic_issues[i].count

\* the emails of the students carrying at least one of two flags
EmailsWith(f1, f2) ==
    {all_students[i].email : i \in {j \in 1..Len(all_students) :
        \E k \in 1..Len(all_students[j].issues) :
            all_students[j].issues[k] \in {f1, f2}}}

MergedOnce(key, f1, f2) ==
    \A su \in Summary(key) :
        /\ su.count = Cardinality(EmailsWith(f1, f2))
        /\ su.count = Len(su.students)
        /\ \A i, j \in 1..Len(su.students) :
              su.students[i].email = su.students[j].email => i = j
        /\ {su.students[i].email : i \in 1..Len(su.students)} = EmailsWith(f1, f2)

\* C9: in each merged summary a student identity (email) is counted once and
\* listed once: count is the number of distinct emails carrying at least one
\* of the two flags and the length of students.
C9_MergedCountsOnce ==
    pc = "done" =>
        /\ MergedOnce("OVER_TESTING_DOOM", "OVER_TESTING", "DOOM_LOOP")
        /\ MergedOnce("MISSING_READING_INSTRUCTION",
                      "NEEDS_HS_INSTRUCTION", "NEEDS_MM_INSTRUCTION")
        /\ (EmailsWith("OVER_TESTING", "DOOM_LOOP") # {}
                => Summary("OVER_TESTING_DOOM") # {})
        /\ (EmailsWith("NEEDS_HS_INSTRUCTION", "NEEDS_MM_INSTRUCTION") # {}
                => Summary("MISSING_READING_INSTRUCTION") # {})

\* C9 witness: a run that ends with a student flagged both OVER_TESTING and
\* DOOM_LOOP, a second student, and a merged summary that counts each once
C9_Witness ==
    /\ pc = "done"
    /\ \E i \in 1..Len(all_students) :
          /\ \E k \in 1..Len(all_students[i].issues) :
                all_students[i].issues[k] = "OVER_TESTING"
          /\ \E k \in 1..Len(all_students[i].issues) :
                all_students[i].issues[k] = "DOOM_LOOP"
    /\ \E su \in Summary("OVER_TESTING_DOOM") : su.count = 2

Max2(a, b) == IF a >= b THEN a ELSE b

\* C10: the merged over-testing summary reports the two sub-condition counts
\* faithfully: over_testing is the number of students flagged OVER_TESTING,
\* doom_loops the number flagged DOOM_LOOP, and
\* max(sub-counts) <= count <= sum of sub-counts.
C10_SubCountsFaithful ==
    pc = "done" =>
        \A su \in Summary("OVER_TESTING_DOOM") :
            /\ su.detail_counts.over_testing = Affected("OVER_TESTING")
            /\ su.detail_counts.doom_loops = Affected("DOOM_LOOP")
            /\ Max2(su.detail_counts.over_testing, su.detail_counts.doom_loops)
                   <= su.count
            /\ su.count <= su.detail_counts.over_testing + su.detail_counts.doom_loops

\* the students of a summary whose growth is defined, as indices
WithGrowth(su) == {i \in 1..Len(su.students) : su.students[i].growth # NaN}

\* a is the mean of the growth of those students, to the nearest tenth
NearestTenthOfMean(a, su) ==
    LET n == Cardinality(WithGrowth(su))
        total == Sum([i \in 1..Len(su.students) |->
                        IF i \in WithGrowth(su) THEN su.students[i].growth ELSE 0])
        diff == a * n - total
    IN  /\ 2 * diff <= n
        /\ 2 * (-diff) <= n

\* C11: for every summary returned, avg_growth is the mean (rounded to one
\* decimal) of growth over exactly the affected students whose growth is
\* defined, and it is undefined (None), not 0, when no affected student has a
\* defined growth.
C11_AvgGrowthOverDefined ==
    pc = "done" =>
        \A k \in 1..Len(systemic_issues) :
            LET su == systemic_issues[k]
            IN  IF WithGrowth(su) = {}
                THEN su.avg_growth = NaN
                ELSE su.avg_growth # NaN /\ NearestTenthOfMean(su.avg_growth, su)

\* C11 witness: a run that ends with one summary whose affected students all
\* lack a growth (avg_growth None) and another that mixes a student without
\* growth with students whose growths average to a non-zero value
C11_Witness ==
    /\ pc = "done"
    /\ \E k \in 1..Len(systemic_issues) :
          /\ WithGrowth(systemic_issues[k]) = {}
          /\ systemic_issues[k].avg_growth = NaN
    /\ \E k \in 1..Len(systemic_issues) :
          /\ WithGrowth(systemic_issues[k]) # {}
          /\ Cardinality(WithGrowth(systemic_issues[k]))
                < Len(systemic_issues[k].students)
          /\ systemic_issues[k].avg_growth # NaN
          /\ systemic_issues[k].avg_growth # 0

\* indices of the student's attempts at one of the grades in targets, and the
\* passing ones among them
AttemptsAt(targets) ==
    {i \in 1..Len(test_data) : test_data[i].test_grade \in targets}

PassingAt(targets) ==
    {i \in AttemptsAt(targets) :
        test_data[i].score # NaN /\ test_data[i].score >= PASS_THRESHOLD}

\* the three HMG+1 figures are the count, the passing count and the pass rate
\* (a percentage to the nearest tenth, 0 for an empty subset) of the attempts
\* at the grades in targets
HmgPlus1Over(targets) ==
    LET total == Cardinality(AttemptsAt(targets))
        passed == Cardinality(PassingAt(targets))
        diff == m.hmg_plus1_eff_rate * total - 1000 * passed
    IN  /\ m.hmg_plus1_total = total
        /\ m.hmg_plus1_passed = passed
        /\ IF total = 0
           THEN m.hmg_plus1_eff_rate = 0
           ELSE 2 * diff <= total /\ 2 * (-diff) <= total

XpOfRows == Sum([i \in 1..Len(daily_data) |-> daily_data[i].XP_Earned])

MinutesOfRows == Sum([i \in 1..Len(daily_data) |-> daily_data[i].Active_Minutes])

XpIn(apps) ==
    Sum([i \in 1..Len(daily_data) |->
            IF daily_data[i].app \in apps THEN daily_data[i].XP_Earned ELSE 0])

\* the category percentages a StudentMetrics record holds, in tenths
PctSum == m.pct_instr + m.pct_practice + m.pct_testing

\* C13: the XP category percentages of a student sum to 100 (within the
\* rounding of the percentages, at most 0.05 each) when the total XP is
\* positive, and are all 0 when the total XP is 0.
C13_PercentagesSumTo100 ==
    Processed =>
        IF XpOfRows > 0
        THEN PctSum >= Dec(100) - 3 /\ PctSum <= Dec(100) + 3
        ELSE m.pct_instr = 0 /\ m.pct_practice = 0 /\ m.pct_testing = 0

\* C19: OVER_TESTING is raised exactly when the testing XP is strictly more
\* than half of the total XP (testing_xp * 2 > total_xp, total_xp > 0), ratios
\* just above one half included.
C19_OverTestingIffMajority ==
    Processed =>
        ("OVER_TESTING" \in Range(m.issues)
            <=> (XpOfRows > 0 /\ 2 * XpIn(TESTING_APPS) > XpOfRows))

\* C20: LOW_ENGAGEMENT is raised exactly when the total active minutes are
\* below 50% of the expected minutes; neither the rounding of the percentage
\* nor expected minutes of 0 raises or suppresses it.
C20_LowEngagementIffBelowHalf ==
    Processed =>
        ("LOW_ENGAGEMENT" \in Range(m.issues)
            <=> 2 * MinutesOfRows < expected_minutes)

\* the calendar step of the run has been taken
CalendarDone == pc \in {"process", "detect", "done"}

\* C12: pct_expected is never negative, pct_expected and daily_avg are both 0
\* when the expected minutes (or the effective days) are 0, and otherwise they
\* are the percentage and the quotient to the nearest tenth: every calendar
\* outcome yields a value, none a division by zero.
C12_NoDivisionByZero ==
    Processed =>
        /\ m.pct_expected >= 0
        /\ m.daily_avg >= 0
        /\ (expected_minutes = 0 \/ effective_days = 0) =>
                (m.pct_expected = 0 /\ m.daily_avg = 0)
        /\ expected_minutes > 0 =>
                LET diff == m.pct_expected * expected_minutes - 1000 * MinutesOfRows
                IN  2 * diff <= expected_minutes /\ 2 * (-diff) <= expected_minutes
        /\ effective_days > 0 =>
                LET diff == m.daily_avg * effective_days - 10 * MinutesOfRows
                IN  2 * diff <= effective_days /\ 2 * (-diff) <= effective_days

\* C12 witness: a term whose calendar yields 0 effective days and 0 expected
\* minutes, and a student with active minutes: both figures are 0
C12_Witness ==
    /\ Processed
    /\ effective_days = 0
    /\ expected_minutes = 0
    /\ MinutesOfRows > 0
    /\ m.pct_expected = 0
    /\ m.daily_avg = 0

\* the exclusion ranges of the calendar, as inclusive ranges of offsets: MAP
\* testing (Aug 19-22, Aug 26-29), Labor Day, the October break, Thanksgiving,
\* the December/January break (Dec 22 - Jan 2) and MLK Day
ExclusionRanges ==
    <<<<5, 8>>, <<12, 15>>, <<18, 18>>, <<53, 57>>, <<102, 106>>, <<130, 141>>,
      <<158, 158>>>>

Excluded(d) ==
    \E k \in 1..Len(ExclusionRanges) :
        ExclusionRanges[k][1] <= d /\ d <= ExclusionRanges[k][2]

\* Monday to Friday: offset 0 is a Thursday
IsWeekday(d) == (d % 7) \in {0, 1, 4, 5, 6}

SchoolWeekdays == {d \in start_date..end_date : IsWeekday(d) /\ ~Excluded(d)}

Categories == {"Instruction", "Practice", "Testing", "Early Lit", "Admin/Other"}

\* C16: categorize_app returns, for every application name, one category of
\* {Instruction, Practice, Testing, Early Lit, Admin/Other}; a name found in
\* no table maps to Admin/Other, never to 'Unknown'.
C16_CategoryInContract ==
    lg_pc = "done" =>
        \A i \in 1..Len(student_xp) :
            /\ app_cats[i] \in Categories
            /\ (student_xp[i].app \notin
                    (LEGACY_INSTRUCTION_APPS \cup LEGACY_TESTING_APPS
                     \cup LEGACY_EARLY_LIT_APPS \cup LEGACY_ADMIN_APPS))
                 => app_cats[i] = "Admin/Other"

\* the rows of the Reading minutes whose name is in names, in the export's order
ReadingOf(names) ==
    LET Kept(r) == r.subject = "Reading" /\ r.fullname \in names
    IN  SelectSeq(minutes_data, Kept)

\* token t occurs in name n at some position
Occurs(t, n) ==
    \E i \in 0..(Len(n) - Len(t)) : \A k \in 1..Len(t) : n[i + k] = t[k]

Spaces(n) == {i \in 1..Len(n) : n[i] = " "}

\* the first and the last token of a name with no space at either end: up to
\* its first space and from its last space on
FirstToken(n) == SubSeq(n, 1, (CHOOSE i \in Spaces(n) : \A j \in Spaces(n) : i <= j) - 1)

LastToken(n) ==
    SubSeq(n, (CHOOSE i \in Spaces(n) : \A j \in Spaces(n) : i >= j) + 1, Len(n))

\* stage 1, stage 2 and stage 3 of the matching chain for the student
ExactStage == ReadingOf({student_name})

AliasStage ==
    IF student_name \notin NAME_MAP_KEYS THEN <<>>
    ELSE LET alt == NAME_MAP(student_name)
             live == {k \in 1..Len(alt) : ReadingOf({alt[k]}) # <<>>}
         IN  IF live = {} THEN <<>>
             ELSE ReadingOf({alt[CHOOSE k \in live : \A j \in live : k <= j]})

PartialStage ==
    IF Spaces(student_name) = {} THEN <<>>
    ELSE ReadingOf({n \in ExportNames :
                       /\ Occurs(FirstToken(student_name), n)
                       /\ Occurs(LastToken(student_name), n)})

\* C17: find_student_in_df returns the exact-name rows if any exist;
\* otherwise the rows of the first alias in NAME_MAP that has rows; otherwise
\* the rows whose name contains both the first and the last token of the
\* student name (names of two tokens or more only); otherwise an empty result,
\* which the caller counts as zero minutes.
C17_MatchingChain ==
    lg_pc \in {"xp", "done"} =>
        /\ mins_df = (IF ExactStage # <<>> THEN ExactStage
                      ELSE IF AliasStage # <<>> THEN AliasStage
                      ELSE PartialStage)
        /\ time_results[1].Reading_Min =
               Sum([i \in 1..Len(mins_df) |-> mins_df[i].active_minutes])

\* C21: TIME_NO_GROWTH is raised exactly when the active minutes are at or
\* above 100% of the expected minutes and the growth is present and <= 0; a
\* student whose growth is absent receives neither TIME_NO_GROWTH nor
\* AT_GRADE_NO_MOTIVATION.
C21_TimeNoGrowthIff ==
    Processed =>
        /\ "TIME_NO_GROWTH" \in Range(m.issues)
              <=> (MinutesOfRows >= expected_minutes
                   /\ row.Growth_FW # NaN /\ row.Growth_FW <= 0)
        /\ row.Growth_FW = NaN =>
              /\ "TIME_NO_GROWTH" \notin Range(m.issues)
              /\ "AT_GRADE_NO_MOTIVATION" \notin Range(m.issues)

\* C22: NEEDS_MM_INSTRUCTION is raised exactly when the resolved HMG is in
\* [2, 7], the student has at least one activity record and none of the
\* records is of an Instruction app (MobyMax); a student with no activity
\* record never has the flag.
C22_NeedsMmIff ==
    Processed =>
        ("NEEDS_MM_INSTRUCTION" \in Range(m.issues)
            <=> /\ m.hmg # NaN
                /\ Dec(2) <= m.hmg
                /\ m.hmg <= Dec(7)
                /\ Len(daily_data) > 0
                /\ \A i \in 1..Len(daily_data) : daily_data[i].app \notin INSTRUCTION_APPS)

\* C22 witness: resolved HMG 7, two activity records none of which is
\* MobyMax, and the flag is raised
C22_Witness ==
    /\ Processed
    /\ m.hmg = Dec(7)
    /\ Len(daily_data) = 2
    /\ \A i \in 1..Len(daily_data) : daily_data[i].app # "MobyMax"
    /\ "NEEDS_MM_INSTRUCTION" \in Range(m.issues)

\* C29: the five per-category XP totals add up to total_xp for every set of
\* activity rows, rows with an unknown or a missing app name included.
C29_CategoriesPartitionXp ==
    Processed =>
        /\ m.total_xp = XpOfRows
        /\ m.instr_xp + m.practice_xp + m.testing_xp + m.elit_xp + m.admin_xp
              = m.total_xp

\* new is old in an order that puts every student with a growth before every
\* student without one, the former by non-decreasing growth, and keeps the
\* order old has among students of equal growth and among those without one;
\* f[p] is the place in old of the student at place p of new
SortedStably(old, new) ==
    /\ Len(new) = Len(old)
    /\ \E f \in [1..Len(old) -> 1..Len(old)] :
          /\ \A p \in 1..Len(old) : new[p] = old[f[p]]
          /\ \A p, q \in 1..Len(old) :
                p < q =>
                    /\ f[p] # f[q]
                    /\ new[p].growth = NaN => new[q].growth = NaN
                    /\ (new[p].growth # NaN /\ new[q].growth # NaN)
                          => new[p].growth <= new[q].growth
                    /\ new[p].growth = new[q].growth => f[p] < f[q]

HasIssue(st, issue) == \E k \in 1..Len(st.issues) : st.issues[k] = issue

UniqueEmails ==
    \A i, j \in 1..Len(all_students) :
        all_students[i].email = all_students[j].email => i = j

\* C30: no student carries both NEEDS_HS_INSTRUCTION and NEEDS_MM_INSTRUCTION,
\* and when the student emails are unique the two sub-counts of the merged
\* 'Missing Reading Instruction' summary add up to its count.
C30_MissingInstructionExclusive ==
    /\ \A i \in 1..Len(all_students) :
          ~(HasIssue(all_students[i], "NEEDS_HS_INSTRUCTION")
            /\ HasIssue(all_students[i], "NEEDS_MM_INSTRUCTION"))
    /\ (pc = "done" /\ UniqueEmails) =>
          \A su \in Summary("MISSING_READING_INSTRUCTION") :
              su.detail_counts.needs_hs + su.detail_counts.needs_mm = su.count

\* C30 witness: a run over three students of different emails that ends with
\* a merged summary counting a student of each flag
C30_Witness ==
    /\ pc = "done"
    /\ Len(all_students) = 3
    /\ UniqueEmails
    /\ \E su \in Summary("MISSING_READING_INSTRUCTION") :
          /\ su.detail_counts.needs_hs >= 1
          /\ su.detail_counts.needs_mm >= 1
          /\ su.count = su.detail_counts.needs_hs + su.detail_counts.needs_mm

\* C26: the missing-instruction flags agree with the reading band, whatever
\* the program level: a student flagged NEEDS_HS_INSTRUCTION is in reading
\* group 'G9+' and a student flagged NEEDS_MM_INSTRUCTION is in 'G3-8'.
C26_FlagsAgreeWithBand ==
    Processed =>
        /\ "NEEDS_HS_INSTRUCTION" \in Range(m.issues) => m.reading_group = "G9+"
        /\ "NEEDS_MM_INSTRUCTION" \in Range(m.issues) => m.reading_group = "G3-8"

\* C27: for an HS student hs_reading_category is 'HS (G9+)' exactly when
\* reading_group is 'G9+', and a student labelled 'HS (<=G8)' is in reading
\* group 'G3-8', also with a resolved HMG of 0 or 1 and an age grade >= 9.
C27_BandLabelsAgree ==
    (Processed /\ row.Level = "HS") =>
        /\ m.hs_reading_category = "HS (G9+)" <=> m.reading_group = "G9+"
        /\ m.hs_reading_category = "HS (<=G8)" => m.reading_group = "G3-8"

\* indices of the student's attempts at grade g whose 'passed' flag is false:
\* the score is absent or below the threshold
NotPassedAt(g) ==
    {i \in 1..Len(test_data) :
        /\ test_data[i].test_grade = g
        /\ (test_data[i].score = NaN \/ test_data[i].score < PASS_THRESHOLD)}

\* C28: at every grade the number of failing attempts that doom-loop
\* detection counts is the number of attempts whose 'passed' flag is false,
\* an attempt with an absent score included: three attempts not passed at a
\* grade with no passing attempt make it a doom-loop grade.
C28_PassFailConsistent ==
    Processed =>
        \A g \in Grades :
            /\ GradeFails(test_data, g) = Cardinality(NotPassedAt(g))
            /\ (Cardinality(NotPassedAt(g)) >= 3 /\ PassesAt(g) = {})
                  => g \in m.doom_grades

\* the clusters that a rule of lines 675-700 assigns
RULE_BASED ==
    CLUSTER_NAMES \ {"Quality Issue", "Mixed/Unclear"}

\* the clusters of the student, once the clustering loop has passed the student
Assigned == Range(student_clusters)

\* C25: in the legacy clustering every student receives at least one cluster;
\* 'Quality Issue' is assigned exactly when no rule-based cluster fired and
\* '% Expected' is at least 75, 'Mixed/Unclear' exactly when no other cluster
\* fired and '% Expected' is below 75; neither co-occurs with another cluster
\* or with the other; and the student is listed under exactly these clusters.
C25_CatchAllClusters ==
    lg_pc = "done" =>
        LET pct == time_results[1].Pct_Expected
        IN  /\ Assigned # {}
            /\ Assigned \subseteq CLUSTER_NAMES
            /\ "Quality Issue" \in Assigned
                  <=> (Assigned \cap RULE_BASED = {} /\ pct >= Dec(75))
            /\ "Mixed/Unclear" \in Assigned
                  <=> (Assigned \cap (CLUSTER_NAMES \ {"Mixed/Unclear"}) = {}
                       /\ pct < Dec(75))
            /\ "Quality Issue" \in Assigned => Assigned = {"Quality Issue"}
            /\ "Mixed/Unclear" \in Assigned => Assigned = {"Mixed/Unclear"}
            /\ \A c \in CLUSTER_NAMES :
                  c \in Assigned <=> student_name \in Range(clusters[c])

\* a student with adequate time and no rule-based cluster is in 'Quality
\* Issue' alone
C25_Witness ==
    /\ lg_pc = "done"
    /\ time_results[1].Pct_Expected >= Dec(75)
    /\ student_clusters = <<"Quality Issue">>

=============================================================================
